---- MODULE Spec2Model ----
(***************************************************************************)
(* Voice generator: the generation pipeline of models/higgs_audio.py       *)
(* (backend selection, per-call worker threads, real call with placeholder *)
(* fallback, in-place WAV writes) and the filename-encoded history of      *)
(* app.py (preview encoding in generate, decoding and mtime-sorted listing *)
(* in list_history).                                                       *)
(*                                                                         *)
(* Strings are sequences of one-character strings, so that strip, replace, *)
(* slicing, splitext and split are computed as Python computes them.       *)
(***************************************************************************)
EXTENDS Integers, Sequences, FiniteSets, TLC

VARIABLES
    HIGGS_AUDIO_AVAILABLE, \* module flag set by the import at higgs_audio.py:26-36
    use_real_model,        \* HiggsAudioModel.use_real_model
    generator,             \* HiggsAudioModel.generator: "None" or "loaded"
    model_loaded,          \* HiggsAudioModel.model_loaded
    status,                \* the snapshot last returned by get_status
    pc,                    \* per request: where its handler / worker job stands
    text,                  \* per request: the stripped request text
    mode,                  \* per request: which coroutine generate_async awaited
    realCalls,             \* per request: calls of generator.generate
    phAttempts,            \* per request: runs of _generate_placeholder_sync
    realFailed,            \* per request: the real path raised
    phFailed,              \* per request: the placeholder path raised
    output_path,           \* per request: generate's output_path (empty: not set)
    voice_id,              \* per request: the voice_id form field (empty: none given)
    voice_path,            \* per request: generate's voice_path (empty: None)
    ref_audio,             \* per request: _generate_sync's ref_audio (empty: None)
    response,              \* per request: what generate answered
    voiceDir,              \* VOICE_INPUT_DIR: the names written to it, and whether
                           \* the file is still there
    fs,                    \* GENERATED_DIR: path -> [mtime, complete]
    now,                   \* the filesystem clock, in ticks
    hpc,                   \* list_history: position of the scan
    limit,                 \* list_history: its limit argument (0: no call in progress)
    names,                 \* list_history: what os.listdir returned, in its order
    files,                 \* list_history: the filtered (then sorted) names
    items,                 \* list_history: the HistoryItems built so far
    hres,                  \* list_history: how the last call ended: "ok", "error"; "none" during a call
    dirty,                 \* the directory changed since the scan in progress began
    encId,                 \* encoding run: the identifier
    encIn,                 \* encoding run: the input string (a text or a preview)
    encStage,              \* encoding run: "input", "rejected", "encoded", "decoded"
    encVia,                \* encoding run: "generate" (text) or "encode" (preview)
    encPreview,            \* encoding run: the preview put in the filename
    encFilename,           \* encoding run: the filename built
    encDecoded             \* encoding run: what list_history decoded from it

genVars  == <<HIGGS_AUDIO_AVAILABLE, use_real_model, generator, model_loaded>>
reqVars  == <<pc, text, mode, realCalls, phAttempts, realFailed, phFailed,
             output_path, voice_id, voice_path, ref_audio, response>>
scanVars == <<hpc, limit, names, files, items, hres>>
encVars  == <<encId, encIn, encStage, encVia, encPreview, encFilename, encDecoded>>
vars     == <<genVars, status, reqVars, fs, now, scanVars, dirty, voiceDir, encVars>>

----------------------------------------------------------------------------
(* Bounds of the model.                                                    *)

MaxReq == 2          \* generation requests in one behaviour
MaxClock == 1        \* last tick of the filesystem clock
TicksPerSec == 2     \* clock ticks in one second of timestamp
SmallLimit == 1      \* a list_history limit below the number of artifacts
MaxStrLen == 3       \* longest free part of an encoding input
PadLen == 48         \* length of the run of letters that pads an encoding input

(* Program constants.                                                      *)

PreviewLen == 50     \* app.py:190  text.replace(...)[:50]
MaxTextLen == 5000   \* app.py:168  len(text) > 5000
DefaultLimit == 20   \* app.py:63   list_history(limit: int = 20)

----------------------------------------------------------------------------
(* Python string operations, on sequences of characters.                   *)

Min(a, b) == IF a < b THEN a ELSE b

\* str.isspace for the characters of the model
IsSpace(c) == c \in {" ", "\n", "\t"}

RECURSIVE LStrip(_)
LStrip(s) == IF s # <<>> /\ IsSpace(Head(s)) THEN LStrip(Tail(s)) ELSE s

RECURSIVE RStrip(_)
RStrip(s) ==
    IF s # <<>> /\ IsSpace(s[Len(s)]) THEN RStrip(SubSeq(s, 1, Len(s) - 1)) ELSE s

\* str.strip()
Strip(s) == RStrip(LStrip(s))

\* str.replace("\n", " ")
ReplaceNewlines(s) == [i \in 1..Len(s) |-> IF s[i] = "\n" THEN " " ELSE s[i]]

\* s[:n]
Slice(s, n) == SubSeq(s, 1, Min(n, Len(s)))

\* str.replace("__", "_"): one pass, left to right, over non-overlapping matches
RECURSIVE ReplaceDoubleUnderscore(_)
ReplaceDoubleUnderscore(s) ==
    IF Len(s) < 2 THEN s
    ELSE IF s[1] = "_" /\ s[2] = "_"
         THEN <<"_">> \o ReplaceDoubleUnderscore(SubSeq(s, 3, Len(s)))
         ELSE <<s[1]>> \o ReplaceDoubleUnderscore(Tail(s))

\* str.find(sub) for a two-character sub, 1-based; 0 when absent
FindPair(s, c1, c2) ==
    LET hits == {i \in 1..(Len(s) - 1) : s[i] = c1 /\ s[i + 1] = c2}
    IN  IF hits = {} THEN 0 ELSE CHOOSE i \in hits : \A j \in hits : i <= j

\* str.rfind(sub) for a two-character sub, 1-based; 0 when absent
RFindPair(s, c1, c2) ==
    LET hits == {i \in 1..(Len(s) - 1) : s[i] = c1 /\ s[i + 1] = c2}
    IN  IF hits = {} THEN 0 ELSE CHOOSE i \in hits : \A j \in hits : i >= j

\* str.find(c), 1-based; 0 when absent
FindChar(s, c) ==
    LET hits == {i \in 1..Len(s) : s[i] = c}
    IN  IF hits = {} THEN 0 ELSE CHOOSE i \in hits : \A j \in hits : i <= j

\* str.rfind(c), 1-based; 0 when absent
RFindChar(s, c) ==
    LET hits == {i \in 1..Len(s) : s[i] = c}
    IN  IF hits = {} THEN 0 ELSE CHOOSE i \in hits : \A j \in hits : i >= j

HasDoubleUnderscore(s) == FindPair(s, "_", "_") # 0
HasSlash(s) == RFindChar(s, "/") # 0

\* str.lower().endswith(".wav"); the model's names hold no upper-case letter
EndsWithWav(s) ==
    Len(s) >= 4 /\ SubSeq(s, Len(s) - 3, Len(s)) = <<".", "w", "a", "v">>

\* os.path.splitext (posixpath): the extension starts at the last dot after the
\* last "/", unless only dots stand between that "/" and the dot.
SplitExtStem(p) ==
    LET sepIndex == RFindChar(p, "/")
        dotIndex == RFindChar(p, ".")
    IN  IF dotIndex > sepIndex
           /\ \E k \in (sepIndex + 1)..(dotIndex - 1) : p[k] # "."
        THEN SubSeq(p, 1, dotIndex - 1)
        ELSE p

\* base.split("__", 1) with the separator before the last "__" (a wrong split)
SplitLastDoubleUnderscore(base) ==
    LET i == RFindPair(base, "_", "_")
    IN  IF i = 0 THEN <<base>>
        ELSE <<SubSeq(base, 1, i - 1), SubSeq(base, i + 2, Len(base))>>

\* base.split("__", 1)
SplitDoubleUnderscore(base) ==
    LET i == FindPair(base, "_", "_")
    IN  IF i = 0 THEN <<base>>
        ELSE <<SubSeq(base, 1, i - 1), SubSeq(base, i + 2, Len(base))>>

----------------------------------------------------------------------------
(* The filename encoding of generate and its decoding in list_history.     *)

\* str.replace("__", ""): the pairs are deleted
RECURSIVE DeleteDoubleUnderscore(_)
DeleteDoubleUnderscore(s) ==
    IF Len(s) < 2 THEN s
    ELSE IF s[1] = "_" /\ s[2] = "_"
         THEN DeleteDoubleUnderscore(SubSeq(s, 3, Len(s)))
         ELSE <<s[1]>> \o DeleteDoubleUnderscore(Tail(s))

\* a preview that deletes "__" instead of shortening it (a wrong preview)
PreviewOfDeletingSeparator(t) ==
    DeleteDoubleUnderscore(Strip(Slice(ReplaceNewlines(t), PreviewLen)))

\* app.py:190-191
PreviewOf(t) ==
    ReplaceDoubleUnderscore(Strip(Slice(ReplaceNewlines(t), PreviewLen)))

\* app.py:194
FilenameOf(id, preview) ==
    IF preview # <<>>
    THEN id \o <<"_", "_">> \o preview \o <<".", "w", "a", "v">>
    ELSE id \o <<".", "w", "a", "v">>

\* app.py:89-95: the id and text_preview list_history reads from a filename
DecodeFilename(f) ==
    LET parts == SplitDoubleUnderscore(SplitExtStem(f))
    IN  [id |-> parts[1],
         text_preview |-> IF Len(parts) = 2 THEN parts[2] ELSE <<>>]

----------------------------------------------------------------------------
(* Inputs.                                                                 *)

Reqs == 1..MaxReq

\* uuid.uuid4(): a fresh token of hexadecimal digits and hyphens per call
HexDigits == <<"1", "2", "3", "4", "5", "6", "7", "8", "9">>
UUID(r) == <<HexDigits[r], "-", "e">>

\* request texts as posted: a plain one, one holding a path separator, a blank one
Texts == { <<"H", "i">>, <<"a", "/", "b">>, <<" ", "\n">> }

\* texts at the length limit: exactly the limit, one past it, the limit inside
\* surrounding whitespace, a blank one and an empty one
LongRun(n) == [i \in 1..n |-> "a"]
LongTexts == { LongRun(MaxTextLen), LongRun(MaxTextLen + 1),
               <<" ">> \o LongRun(MaxTextLen) \o <<"\n">>,
               <<" ", "\n">>, <<>> }

\* voice_id None or "", voice_path None, ref_audio None
NoVoice == <<>>

\* the voice_id upload_voice hands out, and one that no upload handed out
UploadedVoice == <<"a", "-", "f">>
UnknownVoice == <<"b", "-", "f">>
VoiceIds == {NoVoice, UploadedVoice, UnknownVoice}

\* the extensions of uploaded files, lower-cased
UploadExts == { <<".", "w", "a", "v">>, <<".", "t", "x", "t">> }
AllowedExts == { <<".", "w", "a", "v">>, <<".", "m", "p", "3">>,
                 <<".", "f", "l", "a", "c">>, <<".", "o", "g", "g">> }

\* what generate answered: nothing yet, the JSON body, or an HTTPException
NoResponse == [code |-> "none", detail |-> "none", cause |-> "none"]
Ok200 == [code |-> "200", detail |-> "id, filename, download_url", cause |-> "none"]
TextRequired400 == [code |-> "400", detail |-> "Text input is required.",
                    cause |-> "none"]
TextTooLong400 == [code |-> "400", detail |-> "Text is too long (max 5000 characters).",
                   cause |-> "none"]
GenerationFailed500(e) == [code |-> "500", detail |-> "Generation failed: {e}",
                           cause |-> e]

\* the limits list_history is called with
Limits == {SmallLimit, DefaultLimit}

\* characters of the encoding inputs
Alphabet == {"a", " ", "\n", "_", "/", "."}
Strs(n) == UNION {[1..k -> Alphabet] : k \in 0..n}
Pad == [i \in 1..PadLen |-> "a"]
EncInputs == UNION {{s, Pad \o s, s \o Pad} : s \in Strs(MaxStrLen)}

----------------------------------------------------------------------------
(* HiggsAudioModel: construction and status.                               *)

\* __init__: the real backend is used when the package imported and the model loaded
Construct(avail, loadOk) ==
    [use_real_model |-> avail /\ loadOk,
     generator      |-> IF avail /\ loadOk THEN "loaded" ELSE "None",
     model_loaded   |-> avail /\ loadOk]

InitBackend ==
    \E avail \in BOOLEAN, loadOk \in BOOLEAN :
        /\ HIGGS_AUDIO_AVAILABLE = avail
        /\ use_real_model = Construct(avail, loadOk).use_real_model
        /\ generator = Construct(avail, loadOk).generator
        /\ model_loaded = Construct(avail, loadOk).model_loaded

InitRequests ==
    /\ pc = [r \in Reqs |-> "idle"]
    /\ text = [r \in Reqs |-> <<>>]
    /\ mode = [r \in Reqs |-> "none"]
    /\ realCalls = [r \in Reqs |-> 0]
    /\ phAttempts = [r \in Reqs |-> 0]
    /\ realFailed = [r \in Reqs |-> FALSE]
    /\ phFailed = [r \in Reqs |-> FALSE]
    /\ output_path = [r \in Reqs |-> <<>>]
    /\ voice_id = [r \in Reqs |-> NoVoice]
    /\ voice_path = [r \in Reqs |-> NoVoice]
    /\ ref_audio = [r \in Reqs |-> NoVoice]
    /\ response = [r \in Reqs |-> NoResponse]
    /\ voiceDir = [f \in {} |-> TRUE]
    /\ status = [model_name |-> "none", loaded |-> FALSE,
                 real_model_available |-> FALSE, device |-> "none"]

InitFiles ==
    /\ fs = [p \in {} |-> [mtime |-> 0, complete |-> FALSE]]
    /\ now = 0

InitScan ==
    /\ hpc = "idle"
    /\ limit = 0
    /\ names = <<>>
    /\ files = <<>>
    /\ items = <<>>
    /\ hres = "none"
    /\ dirty = FALSE

InitEncIdle ==
    /\ encId = <<>>
    /\ encIn = <<>>
    /\ encStage = "off"
    /\ encVia = "none"
    /\ encPreview = <<>>
    /\ encFilename = <<>>
    /\ encDecoded = [id |-> <<>>, text_preview |-> <<>>]

Init == InitBackend /\ InitRequests /\ InitFiles /\ InitScan /\ InitEncIdle

\* get_status that probes the package again and takes the answer for the backend
\* state (a wrong get_status)
GetStatusReprobing ==
    /\ \E cuda \in BOOLEAN, probeOk \in BOOLEAN :
         status' = [model_name |-> IF use_real_model THEN "BosonAI/Higgs-Audio-2"
                                   ELSE "BosonAI/Higgs-Audio-2 (placeholder)",
                    loaded |-> model_loaded,
                    real_model_available |-> use_real_model,
                    device |-> IF use_real_model /\ cuda
                               THEN (IF probeOk THEN "cuda" ELSE "absent")
                               ELSE "cpu"]
    /\ use_real_model' = HIGGS_AUDIO_AVAILABLE
    /\ UNCHANGED <<HIGGS_AUDIO_AVAILABLE, generator, model_loaded, reqVars, fs, now,
                   scanVars, dirty, voiceDir, encVars>>

\* get_status: reads the backend state; the device fields depend on torch
GetStatus ==
    /\ \E cuda \in BOOLEAN, probeOk \in BOOLEAN :
         status' = [model_name |-> IF use_real_model THEN "BosonAI/Higgs-Audio-2"
                                   ELSE "BosonAI/Higgs-Audio-2 (placeholder)",
                    loaded |-> model_loaded,
                    real_model_available |-> use_real_model,
                    device |-> IF use_real_model /\ cuda
                               THEN (IF probeOk THEN "cuda" ELSE "absent")
                               ELSE "cpu"]
    /\ UNCHANGED <<genVars, reqVars, fs, now, scanVars, dirty, voiceDir, encVars>>

----------------------------------------------------------------------------
(* The artifact directory.                                                 *)

\* the request's out_id and filename, and the output_path (relative to
\* GENERATED_DIR) it handed to generate_async
OutId(r) == UUID(r)
FilenameOfRequest(r) == FilenameOf(OutId(r), PreviewOf(text[r]))
OutputPath(r) == output_path[r]

\* open(output_path, "wb") after os.makedirs(dirname): the file exists from here
\* on, holding what has been written so far; closing it leaves it complete
FsPut(path, complete) ==
    [p \in DOMAIN fs \cup {path} |->
        IF p = path THEN [mtime |-> now, complete |-> complete] ELSE fs[p]]

FsRemove(path) == [p \in DOMAIN fs \ {path} |-> fs[p]]

\* a change of the directory is seen by a scan that has begun
Touched == IF hpc # "idle" THEN TRUE ELSE dirty

\* the entry of GENERATED_DIR a path lies under: itself, or its first directory
TopName(path) ==
    IF FindChar(path, "/") = 0 THEN path
    ELSE SubSeq(path, 1, FindChar(path, "/") - 1)

\* os.listdir(GENERATED_DIR), as a set
ListDir == {TopName(p) : p \in DOMAIN fs}

\* os.path.isfile(os.path.join(GENERATED_DIR, name))
IsFile(name) == name \in DOMAIN fs

\* os.path.getmtime of an existing file
GetMTime(name) == fs[name].mtime

----------------------------------------------------------------------------
(* generate (app.py) and generate_async (higgs_audio.py).                  *)

Working == {"real_call", "real_write", "ph_run", "ph_write"}
Finished == {"done_ok", "done_err"}

\* validation of the text as posted, before strip (a wrong validation)
AcceptedUnstripped(t) == t # <<>> /\ Len(t) <= MaxTextLen

\* the text passes validation: not empty after strip, at most 5000 characters
Accepted(t) == Strip(t) # <<>> /\ Len(Strip(t)) <= MaxTextLen

\* os.listdir(VOICE_INPUT_DIR), as a set
VoiceFiles == {f \in DOMAIN voiceDir : voiceDir[f]}

\* f.startswith(voice_id)
StartsWith(f, prefix) ==
    Len(prefix) <= Len(f) /\ SubSeq(f, 1, Len(prefix)) = prefix

\* the values voice_path can take: None without a voice_id or without candidates,
\* else candidates[0], which is whichever matching name os.listdir returns first
ResolveVoice(vid) ==
    LET candidates == {f \in VoiceFiles : StartsWith(f, vid)}
    IN  IF vid = NoVoice \/ candidates = {} THEN {NoVoice} ELSE candidates

\* ref_audio taken from the path without asking whether it exists (a wrong lookup)
RefAudioUnchecked(voice_sample_path) == voice_sample_path

\* ref_audio: the sample path if one was given and the file exists, else None
RefAudio(voice_sample_path) ==
    IF voice_sample_path # NoVoice /\ voice_sample_path \in VoiceFiles
    THEN voice_sample_path ELSE NoVoice

\* POST /generate up to the await: validation, the filename, and the submission of
\* the job to a ThreadPoolExecutor(max_workers=1) made for this call alone.
\* Requests are numbered in the order they are submitted.
GenerateRequest(r, t, vid) ==
    /\ pc[r] = "idle"
    /\ \A q \in Reqs : q < r => pc[q] # "idle"
    /\ LET stripped == Strip(t)
       IN  /\ text' = [text EXCEPT ![r] = stripped]
           /\ voice_id' = [voice_id EXCEPT ![r] = vid]
           /\ pc' = [pc EXCEPT ![r] = IF Accepted(t) THEN "queued" ELSE "rejected"]
           /\ mode' = [mode EXCEPT ![r] =
                          IF ~Accepted(t) THEN "none"
                          ELSE IF use_real_model /\ generator # "None"
                               THEN "real" ELSE "placeholder"]
           /\ response' = [response EXCEPT ![r] =
                              IF Accepted(t) THEN @
                              ELSE IF stripped = <<>> THEN TextRequired400
                                   ELSE TextTooLong400]
           /\ IF Accepted(t)
              THEN /\ \E vp \in ResolveVoice(vid) :
                        voice_path' = [voice_path EXCEPT ![r] = vp]
                   /\ output_path' = [output_path EXCEPT ![r] =
                                         FilenameOf(OutId(r), PreviewOf(stripped))]
              ELSE UNCHANGED <<voice_path, output_path>>
    /\ UNCHANGED <<genVars, status, realCalls, phAttempts, realFailed, phFailed,
                   ref_audio, fs, now, scanVars, dirty, voiceDir, encVars>>

\* a request with one of the short texts and no voice sample
Generate(r) == \E t \in Texts : GenerateRequest(r, t, NoVoice)

\* a request with a text at the length limit
GenerateLong(r) == \E t \in LongTexts : GenerateRequest(r, t, NoVoice)

\* a request that names a voice sample
GenerateVoice(r) == \E vid \in VoiceIds : GenerateRequest(r, <<"H", "i">>, vid)

\* the call's own worker thread takes the job: _generate_sync calls
\* generator.generate, _generate_placeholder_sync renders the tone
StartJob(r) ==
    /\ pc[r] = "queued"
    /\ pc' = [pc EXCEPT ![r] = IF mode[r] = "real" THEN "real_call" ELSE "ph_run"]
    /\ realCalls' = [realCalls EXCEPT ![r] = IF mode[r] = "real" THEN @ + 1 ELSE @]
    /\ phAttempts' = [phAttempts EXCEPT ![r] = IF mode[r] = "real" THEN @ ELSE @ + 1]
    /\ ref_audio' = [ref_audio EXCEPT ![r] =
                        IF mode[r] = "real" THEN RefAudio(voice_path[r]) ELSE @]
    /\ UNCHANGED <<genVars, status, text, mode, realFailed, phFailed,
                   output_path, voice_id, voice_path, response,
                   fs, now, scanVars, dirty, voiceDir, encVars>>

\* an except branch that also gives up the real backend for good (a wrong fallback)
FallbackDowngrading(r) ==
    /\ pc' = [pc EXCEPT ![r] = "ph_run"]
    /\ realFailed' = [realFailed EXCEPT ![r] = TRUE]
    /\ phAttempts' = [phAttempts EXCEPT ![r] = @ + 1]
    /\ use_real_model' = FALSE
    /\ UNCHANGED <<HIGGS_AUDIO_AVAILABLE, generator, model_loaded>>

\* the except branch of _generate_sync: the placeholder runs for this call
Fallback(r) ==
    /\ pc' = [pc EXCEPT ![r] = "ph_run"]
    /\ realFailed' = [realFailed EXCEPT ![r] = TRUE]
    /\ phAttempts' = [phAttempts EXCEPT ![r] = @ + 1]
    /\ UNCHANGED genVars

\* generator.generate returns and the output file is opened, or either raises
RealGenerate(r) ==
    /\ pc[r] = "real_call"
    /\ \E ok \in BOOLEAN :
         IF ok
         THEN /\ fs' = FsPut(OutputPath(r), FALSE)
              /\ dirty' = Touched
              /\ pc' = [pc EXCEPT ![r] = "real_write"]
              /\ UNCHANGED <<genVars, realFailed, phAttempts>>
         ELSE /\ Fallback(r)
              /\ UNCHANGED <<fs, dirty>>
    /\ UNCHANGED <<status, text, mode, realCalls, phFailed,
                   output_path, voice_id, voice_path, ref_audio, response,
                   now, scanVars, voiceDir, encVars>>

\* the real output is written out and the request returns, or the write raises
\* part-way and leaves what it wrote
RealWrite(r) ==
    /\ pc[r] = "real_write"
    /\ \E ok \in BOOLEAN :
         IF ok
         THEN /\ fs' = FsPut(OutputPath(r), TRUE)
              /\ pc' = [pc EXCEPT ![r] = "done_ok"]
              /\ response' = [response EXCEPT ![r] = Ok200]
              /\ UNCHANGED <<genVars, realFailed, phAttempts>>
         ELSE /\ fs' = FsPut(OutputPath(r), FALSE)
              /\ Fallback(r)
              /\ UNCHANGED response
    /\ dirty' = Touched
    /\ UNCHANGED <<status, text, mode, realCalls, phFailed,
                   output_path, voice_id, voice_path, ref_audio,
                   now, scanVars, voiceDir, encVars>>

\* a failed placeholder answered by running the placeholder again (a wrong
\* handler)
PlaceholderRetried(r, e) ==
    /\ pc' = [pc EXCEPT ![r] = "ph_run"]
    /\ phFailed' = [phFailed EXCEPT ![r] = TRUE]
    /\ phAttempts' = [phAttempts EXCEPT ![r] = @ + 1]
    /\ UNCHANGED response

\* the placeholder's exception leaves the worker, generate_async and the await,
\* and generate's except clause answers 500 with it; nothing is run again
PlaceholderRaised(r, e) ==
    /\ pc' = [pc EXCEPT ![r] = "done_err"]
    /\ phFailed' = [phFailed EXCEPT ![r] = TRUE]
    /\ response' = [response EXCEPT ![r] = GenerationFailed500(e)]
    /\ UNCHANGED phAttempts

\* _generate_placeholder_sync up to wavfile.write opening output_path; if makedirs
\* or the open raises, the exception reaches generate, which answers 500
PlaceholderOpen(r) ==
    /\ pc[r] = "ph_run"
    /\ \E ok \in BOOLEAN :
         IF ok
         THEN /\ fs' = FsPut(OutputPath(r), FALSE)
              /\ dirty' = Touched
              /\ pc' = [pc EXCEPT ![r] = "ph_write"]
              /\ UNCHANGED <<phFailed, phAttempts, response>>
         ELSE /\ PlaceholderRaised(r, "open")
              /\ UNCHANGED <<fs, dirty>>
    /\ UNCHANGED <<genVars, status, text, mode, realCalls, realFailed,
                   output_path, voice_id, voice_path, ref_audio,
                   now, scanVars, voiceDir, encVars>>

\* wavfile.write finishes and the request returns its JSON, or the write raises
\* part-way, leaves what it wrote, and generate answers 500
PlaceholderWrite(r) ==
    /\ pc[r] = "ph_write"
    /\ \E ok \in BOOLEAN :
         IF ok
         THEN /\ fs' = FsPut(OutputPath(r), TRUE)
              /\ pc' = [pc EXCEPT ![r] = "done_ok"]
              /\ response' = [response EXCEPT ![r] = Ok200]
              /\ UNCHANGED <<phFailed, phAttempts>>
         ELSE /\ fs' = FsPut(OutputPath(r), FALSE)
              /\ PlaceholderRaised(r, "write")
    /\ dirty' = Touched
    /\ UNCHANGED <<genVars, status, text, mode, realCalls, realFailed,
                   output_path, voice_id, voice_path, ref_audio,
                   now, scanVars, voiceDir, encVars>>

Next ==
    \/ \E r \in Reqs : Generate(r)
    \/ \E r \in Reqs : StartJob(r)
    \/ \E r \in Reqs : RealGenerate(r)
    \/ \E r \in Reqs : RealWrite(r)
    \/ \E r \in Reqs : PlaceholderOpen(r)
    \/ \E r \in Reqs : PlaceholderWrite(r)
    \/ GetStatus

Spec == Init /\ [][Next]_vars

----------------------------------------------------------------------------
(* Requests with texts at the length limit.                                *)

NextLong ==
    \/ \E r \in Reqs : GenerateLong(r)
    \/ \E r \in Reqs : StartJob(r)
    \/ \E r \in Reqs : RealGenerate(r)
    \/ \E r \in Reqs : RealWrite(r)
    \/ \E r \in Reqs : PlaceholderOpen(r)
    \/ \E r \in Reqs : PlaceholderWrite(r)

SpecLong == Init /\ [][NextLong]_vars

----------------------------------------------------------------------------
(* upload_voice (app.py) and requests that name a voice sample.            *)

\* POST /upload-voice: a file with an allowed extension is stored under a fresh
\* voice_id; any other is answered 400 and nothing is stored
UploadVoice ==
    /\ \A f \in DOMAIN voiceDir : ~StartsWith(f, UploadedVoice)
    /\ \E ext \in UploadExts :
         voiceDir' = IF ext \in AllowedExts
                     THEN [f \in DOMAIN voiceDir \cup {UploadedVoice \o ext} |-> TRUE]
                     ELSE voiceDir
    /\ UNCHANGED <<genVars, status, reqVars, fs, now, scanVars, dirty, encVars>>

\* a voice sample is deleted from VOICE_INPUT_DIR by something other than the program
RemoveVoice ==
    /\ \E f \in VoiceFiles : voiceDir' = [voiceDir EXCEPT ![f] = FALSE]
    /\ UNCHANGED <<genVars, status, reqVars, fs, now, scanVars, dirty, encVars>>

NextVoice ==
    \/ UploadVoice
    \/ RemoveVoice
    \/ \E r \in Reqs : GenerateVoice(r)
    \/ \E r \in Reqs : StartJob(r)
    \/ \E r \in Reqs : RealGenerate(r)
    \/ \E r \in Reqs : RealWrite(r)
    \/ \E r \in Reqs : PlaceholderOpen(r)
    \/ \E r \in Reqs : PlaceholderWrite(r)

SpecVoice == Init /\ [][NextVoice]_vars

----------------------------------------------------------------------------
(* Claims about validation, voice samples and failures.                    *)

\* the artifact files of the requests that passed validation
AcceptedPaths == {OutputPath(q) : q \in {q \in Reqs : pc[q] \notin {"idle", "rejected"}}}

\* C11: a request whose text is empty after trimming, or longer than 5000
\* characters after trimming, is answered 400 before anything is submitted: it has
\* no generate_async call, no job on either backend, and no artifact file.
C11_InvalidTextRejectedBeforeSubmission ==
    \A r \in Reqs :
        pc[r] # "idle" /\ (text[r] = <<>> \/ Len(text[r]) > MaxTextLen) =>
            /\ pc[r] = "rejected"
            /\ response[r] \in {TextRequired400, TextTooLong400}
            /\ mode[r] = "none"
            /\ realCalls[r] = 0 /\ phAttempts[r] = 0
            /\ DOMAIN fs \subseteq AcceptedPaths

\* C11 witness: a text of 5001 characters and a blank text have both been rejected,
\* each with its own answer
C11_Witness ==
    \E r \in Reqs, q \in Reqs :
        /\ pc[r] = "rejected" /\ Len(text[r]) = MaxTextLen + 1
        /\ response[r] = TextTooLong400
        /\ pc[q] = "rejected" /\ text[q] = <<>>
        /\ response[q] = TextRequired400

\* the voice sample of request r is missing: no voice_path was resolved, or the
\* file it names is not there
VoiceMissing(r) == voice_path[r] = NoVoice \/ voice_path[r] \notin VoiceFiles

\* C12: a voice_id that matches no file gives no voice_path and the request is
\* submitted all the same; a job whose sample is missing when it starts runs with
\* no reference audio; and a request fails only when the placeholder raised.
C12_MissingVoiceMeansNoReference ==
    [][\A r \in Reqs :
         /\ ( /\ pc[r] = "idle" /\ pc'[r] # "idle" /\ Accepted(text'[r])
              /\ \A f \in VoiceFiles : ~StartsWith(f, voice_id'[r]) )
            => pc'[r] = "queued" /\ voice_path'[r] = NoVoice
         /\ (pc[r] = "queued" /\ pc'[r] # "queued" /\ VoiceMissing(r))
            => pc'[r] \in Working /\ ref_audio'[r] = NoVoice
         /\ pc'[r] = "done_err" => phFailed'[r]
      ]_vars

\* C12 witness: two requests on the real backend have returned their audio, one
\* that named a voice_id no file matches, one whose sample was resolved and was
\* gone when its job started; both ran without reference audio
C12_Witness ==
    \E r \in Reqs, q \in Reqs :
        /\ voice_id[r] = UnknownVoice /\ voice_path[r] = NoVoice
        /\ mode[r] = "real" /\ ref_audio[r] = NoVoice /\ response[r] = Ok200
        /\ voice_id[q] = UploadedVoice /\ voice_path[q] # NoVoice
        /\ mode[q] = "real" /\ ref_audio[q] = NoVoice /\ response[q] = Ok200

\* C13: a request whose real path and placeholder fallback both failed is answered
\* 500 "Generation failed" with the placeholder's exception, and nothing is run
\* again: no request has more than one real call or more than one placeholder
\* attempt.
C13_DoubleFailureSurfacedOnce ==
    \A r \in Reqs :
        /\ realCalls[r] <= 1 /\ phAttempts[r] <= 1
        /\ realFailed[r] /\ phFailed[r] =>
              /\ pc[r] = "done_err"
              /\ response[r] \in {GenerationFailed500("open"),
                                   GenerationFailed500("write")}
              /\ realCalls[r] = 1 /\ phAttempts[r] = 1

\* C13 witness: a request whose real path failed and whose placeholder write then
\* failed has been answered 500
C13_Witness ==
    \E r \in Reqs :
        /\ realFailed[r] /\ phFailed[r]
        /\ pc[r] = "done_err"
        /\ response[r] = GenerationFailed500("write")
        /\ OutputPath(r) \in DOMAIN fs

----------------------------------------------------------------------------
(* list_history (app.py), step by step: listing, filtering, sorting, and   *)
(* one HistoryItem per loop iteration. Files change between its steps.     *)

\* the orders os.listdir may return a set of names in
RECURSIVE Orders(_)
Orders(S) ==
    IF S = {} THEN {<<>>}
    ELSE UNION {{<<x>> \o t : t \in Orders(S \ {x})} : x \in S}

\* ascending sort by modification time (a wrong sort)
RECURSIVE SortedByMTimeAscending(_)
SortedByMTimeAscending(fl) ==
    IF fl = <<>> THEN <<>>
    ELSE LET f == fl[Len(fl)]
             sorted == SortedByMTimeAscending(SubSeq(fl, 1, Len(fl) - 1))
             k == Cardinality({i \in 1..Len(sorted) : GetMTime(sorted[i]) <= GetMTime(f)})
         IN  SubSeq(sorted, 1, k) \o <<f>> \o SubSeq(sorted, k + 1, Len(sorted))

\* sorted(files, key=getmtime, reverse=True): descending, and stable, so names of
\* equal modification time keep the order the listing gave them
RECURSIVE SortedByMTime(_)
SortedByMTime(fl) ==
    IF fl = <<>> THEN <<>>
    ELSE LET f == fl[Len(fl)]
             sorted == SortedByMTime(SubSeq(fl, 1, Len(fl) - 1))
             k == Cardinality({i \in 1..Len(sorted) : GetMTime(sorted[i]) >= GetMTime(f)})
         IN  SubSeq(sorted, 1, k) \o <<f>> \o SubSeq(sorted, k + 1, Len(sorted))

\* datetime.fromtimestamp(mtime).isoformat(timespec="seconds"): whole seconds
Timestamp(mtime) == mtime \div TicksPerSec

\* app.py:85-101
HistoryItemOf(f) ==
    [id |-> DecodeFilename(f).id,
     filename |-> f,
     text_preview |-> DecodeFilename(f).text_preview,
     timestamp |-> Timestamp(GetMTime(f))]

\* list_history is left, by return or by exception: its locals are gone
HistoryLeave(result) ==
    /\ hres' = result
    /\ hpc' = "idle"
    /\ limit' = 0
    /\ dirty' = FALSE
    /\ names' = <<>>
    /\ files' = <<>>
    /\ items' = <<>>

\* the call, the isdir check (the directory is made at import) and os.listdir
HistoryList ==
    /\ hpc = "idle"
    /\ \E l \in Limits : limit' = l
    /\ \E order \in Orders(ListDir) : names' = order
    /\ hpc' = "listed"
    /\ files' = <<>>
    /\ items' = <<>>
    /\ hres' = "none"
    /\ dirty' = FALSE
    /\ UNCHANGED <<genVars, status, reqVars, fs, now, voiceDir, encVars>>

\* the comprehension: names that are files now and end in .wav
HistoryFilter ==
    /\ hpc = "listed"
    /\ files' = SelectSeq(names, LAMBDA f : IsFile(f) /\ EndsWithWav(f))
    /\ names' = <<>>
    /\ hpc' = "filtered"
    /\ UNCHANGED <<genVars, status, reqVars, fs, now, limit, items, hres, dirty,
                   voiceDir, encVars>>

\* sorted(...): getmtime of every kept name; it raises for a name that is gone
HistorySort ==
    /\ hpc = "filtered"
    /\ IF \A i \in 1..Len(files) : IsFile(files[i])
       THEN /\ files' = SortedByMTime(files)
            /\ hpc' = "sorted"
            /\ UNCHANGED <<limit, names, items, hres, dirty>>
       ELSE HistoryLeave("error")
    /\ UNCHANGED <<genVars, status, reqVars, fs, now, voiceDir, encVars>>

\* one iteration of the loop over files[:limit]: getmtime for the timestamp (it
\* raises for a name that is gone), the decoding, the append
HistoryItem ==
    /\ hpc = "sorted"
    /\ Len(items) < Len(Slice(files, limit))
    /\ LET f == files[Len(items) + 1]
       IN  IF IsFile(f)
           THEN /\ items' = Append(items, HistoryItemOf(f))
                /\ UNCHANGED <<hpc, limit, names, files, hres, dirty>>
           ELSE HistoryLeave("error")
    /\ UNCHANGED <<genVars, status, reqVars, fs, now, voiceDir, encVars>>

\* the loop is over: items is what the return statement hands to the caller
ReadyToReturn == hpc = "sorted" /\ Len(items) = Len(Slice(files, limit))

\* return items
HistoryReturn ==
    /\ ReadyToReturn
    /\ HistoryLeave("ok")
    /\ UNCHANGED <<genVars, status, reqVars, fs, now, voiceDir, encVars>>

\* the filesystem clock advances (only once the present tick stamps some file)
Tick ==
    /\ now < MaxClock
    /\ \E p \in DOMAIN fs : fs[p].mtime = now
    /\ now' = now + 1
    /\ UNCHANGED <<genVars, status, reqVars, fs, scanVars, dirty, voiceDir, encVars>>

\* someone removes a finished artifact from the artifact directory
ExternalRemove ==
    /\ \E r \in Reqs :
         /\ pc[r] \in Finished
         /\ IsFile(OutputPath(r))
         /\ fs' = FsRemove(OutputPath(r))
    /\ dirty' = Touched
    /\ UNCHANGED <<genVars, status, reqVars, now, scanVars, voiceDir, encVars>>

\* a server without the Higgs-Audio package: the placeholder backend
InitHist == Init /\ ~HIGGS_AUDIO_AVAILABLE

NextHist ==
    \/ \E r \in Reqs : Generate(r)
    \/ \E r \in Reqs : StartJob(r)
    \/ \E r \in Reqs : PlaceholderOpen(r)
    \/ \E r \in Reqs : PlaceholderWrite(r)
    \/ HistoryList
    \/ HistoryFilter
    \/ HistorySort
    \/ HistoryItem
    \/ HistoryReturn
    \/ Tick
    \/ ExternalRemove

SpecHist == InitHist /\ [][NextHist]_vars

----------------------------------------------------------------------------
(* The filename encoding on its own: one identifier and one input string,  *)
(* put through generate's preview and filename, or through the filename    *)
(* format as a preview, and then through list_history's decoding.          *)

InitEnc ==
    /\ InitBackend /\ InitRequests /\ InitFiles /\ InitScan
    /\ ~HIGGS_AUDIO_AVAILABLE
    /\ encId \in {UUID(r) : r \in Reqs}
    /\ encIn \in EncInputs
    /\ encStage = "input"
    /\ encVia = "none"
    /\ encPreview = <<>>
    /\ encFilename = <<>>
    /\ encDecoded = [id |-> <<>>, text_preview |-> <<>>]

sysVars == <<genVars, status, reqVars, fs, now, scanVars, dirty, voiceDir>>

\* app.py:164-169 and 189-194: the text is validated, then previewed and named
EncGenerate ==
    /\ encStage = "input"
    /\ LET stripped == Strip(encIn)
       IN  IF stripped = <<>> \/ Len(stripped) > MaxTextLen
           THEN /\ encStage' = "rejected"
                /\ UNCHANGED <<encPreview, encFilename>>
           ELSE /\ encStage' = "encoded"
                /\ encPreview' = PreviewOf(stripped)
                /\ encFilename' = FilenameOf(encId, PreviewOf(stripped))
    /\ encVia' = "generate"
    /\ UNCHANGED <<sysVars, encId, encIn, encDecoded>>

\* app.py:194 alone: the input is taken as a preview of at most 50 characters
EncEncode ==
    /\ encStage = "input"
    /\ Len(encIn) <= PreviewLen
    /\ encStage' = "encoded"
    /\ encVia' = "encode"
    /\ encPreview' = encIn
    /\ encFilename' = FilenameOf(encId, encIn)
    /\ UNCHANGED <<sysVars, encId, encIn, encDecoded>>

\* app.py:89-95
EncDecode ==
    /\ encStage = "encoded"
    /\ encStage' = "decoded"
    /\ encDecoded' = DecodeFilename(encFilename)
    /\ UNCHANGED <<sysVars, encId, encIn, encVia, encPreview, encFilename>>

NextEnc == EncGenerate \/ EncEncode \/ EncDecode

SpecEnc == InitEnc /\ [][NextEnc]_vars

C7_PreviewHasNoSeparator ==
    encStage \in {"encoded", "decoded"} /\ encVia = "generate" =>
        Len(encPreview) <= PreviewLen /\ ~HasDoubleUnderscore(encPreview)

\* C14: every text that passes validation is given a non-empty preview, so its
\* filename is the identifier, "__", the preview and ".wav", never the bare
\* identifier and ".wav".
C14_PreviewNeverEmpty ==
    encVia = "generate" /\ Accepted(encIn) =>
        /\ encStage \in {"encoded", "decoded"}
        /\ encPreview # <<>>
        /\ encFilename = encId \o <<"_", "_">> \o encPreview \o <<".", "w", "a", "v">>
        /\ encFilename # encId \o <<".", "w", "a", "v">>

\* C14 witness: a text that is "__" inside whitespace has been validated and named;
\* its preview is the single underscore the replacement leaves
C14_Witness ==
    /\ encVia = "generate" /\ encStage = "encoded"
    /\ IsSpace(encIn[1]) /\ Strip(encIn) = <<"_", "_">>
    /\ encPreview = <<"_">>

----------------------------------------------------------------------------
(* Claims about the generation pipeline, under Spec.                       *)

Submitted(r) == pc[r] \in {"queued"} \cup Working \cup Finished
Started(r) == pc[r] \in Working \cup Finished
ArtifactComplete(r) == OutputPath(r) \in DOMAIN fs /\ fs[OutputPath(r)].complete

\* C1: at most one synthesis job (a generator.generate call, a placeholder render
\* or the write of either) is executing at any time, system-wide.
C1_SynthesisSerialized == Cardinality({r \in Reqs : pc[r] \in Working}) <= 1

\* C2: once use_real_model is False, no step of generate, of a worker job or of
\* get_status makes it True again.
C2_DowngradeOneWay == [][use_real_model = FALSE => use_real_model' = FALSE]_vars

\* C2 witness: an instance whose package imported but whose load failed sits in
\* Placeholder state after a generation succeeded, one failed and get_status ran
C2_Witness ==
    /\ HIGGS_AUDIO_AVAILABLE /\ ~use_real_model
    /\ status.model_name = "BosonAI/Higgs-Audio-2 (placeholder)"
    /\ \E r \in Reqs : pc[r] = "done_ok"
    /\ \E r \in Reqs : pc[r] = "done_err"

\* C3 as claimed: a request whose real path failed always ends successfully, with a
\* complete artifact, and the backend stays Real.
C3_FallbackAlwaysSucceeds ==
    \A r \in Reqs :
        realFailed[r] /\ pc[r] \in Finished =>
            pc[r] = "done_ok" /\ ArtifactComplete(r) /\ use_real_model

\* C3 as amended: a request whose real path failed runs the placeholder exactly
\* once; it ends successfully, with a complete artifact at its output path, exactly
\* when the placeholder's own open and write succeed, and fails otherwise; either
\* way the backend stays Real and every request submitted calls the real backend.
C3_FallbackForThisCallOnly ==
    \A r \in Reqs :
        realFailed[r] =>
            /\ use_real_model /\ generator = "loaded"
            /\ phAttempts[r] = 1
            /\ pc[r] \in {"ph_run", "ph_write"} \cup Finished
            /\ pc[r] \in Finished => (pc[r] = "done_ok" <=> ~phFailed[r])
            /\ pc[r] = "done_ok" => ArtifactComplete(r)
            /\ \A q \in Reqs :
                 /\ Submitted(q) => mode[q] = "real"
                 /\ Started(q) => realCalls[q] = 1

\* C3 witness: the first request's real path failed and its fallback succeeded, and
\* the request after it is inside generator.generate
C3_Witness ==
    \E r \in Reqs, q \in Reqs :
        /\ r < q
        /\ realFailed[r] /\ pc[r] = "done_ok" /\ ArtifactComplete(r)
        /\ pc[q] = "real_call"

\* C4: a failed request leaves no file at its output path, and every file visible
\* in the artifact directory is completely written.
C4_NoPartialArtifacts ==
    /\ \A r \in Reqs : pc[r] = "done_err" => OutputPath(r) \notin DOMAIN fs
    /\ \A p \in DOMAIN fs : fs[p].complete

\* C5: of two submitted requests, the later one's job has not started before the
\* earlier one's job has finished.
C5_FifoOrder ==
    \A a \in Reqs, b \in Reqs :
        a < b /\ Submitted(a) /\ Started(b) => pc[a] \in Finished

----------------------------------------------------------------------------
(* Claims about the history, under SpecHist.                               *)

\* the .wav files of the artifact directory
WavFiles == {f \in ListDir : IsFile(f) /\ EndsWithWav(f)}
Shown == {items[i].filename : i \in 1..Len(items)}

\* a scan is at its return statement and the directory is as it was when it began
QuietScanReturned == ReadyToReturn /\ ~dirty

\* C8: when a generate call has succeeded, no job is running and its artifact is
\* the newest file under the artifact directory (so no later generation has
\* completed), a list_history that runs then returns as its first item that call's
\* id and filename and the preview encoded in the filename.
C8_NewestGenerationListedFirst ==
    \A r \in Reqs :
        /\ QuietScanReturned
        /\ pc[r] = "done_ok" /\ ArtifactComplete(r)
        /\ \A q \in Reqs : pc[q] \notin Working
        /\ \A p \in DOMAIN fs \ {OutputPath(r)} : fs[p].mtime < fs[OutputPath(r)].mtime
        => /\ items # <<>>
           /\ items[1].id = OutId(r)
           /\ items[1].filename = FilenameOfRequest(r)
           /\ items[1].text_preview = PreviewOf(text[r])

\* C9: list_history never raises, whatever appears in or disappears from the
\* artifact directory during the scan.
C9_ScanNeverRaises == hres # "error"

\* C10: list_history(limit) over a directory that does not change meanwhile returns
\* min(limit, number of .wav files) distinct .wav files, newest first, and omits no
\* file newer than one it returns.
C10_NewestFirstTruncated ==
    QuietScanReturned =>
        /\ Len(items) = Min(limit, Cardinality(WavFiles))
        /\ Shown \subseteq WavFiles
        /\ \A i \in 1..Len(items), j \in 1..Len(items) :
             i < j => /\ items[i].filename # items[j].filename
                      /\ GetMTime(items[i].filename) >= GetMTime(items[j].filename)
        /\ \A f \in WavFiles \ Shown, g \in Shown : GetMTime(f) <= GetMTime(g)

\* C10 witness: a scan with a limit below the number of .wav files returned, and
\* the file it omitted is older than one it returned
C10_Witness ==
    /\ QuietScanReturned
    /\ Len(items) = limit
    /\ \E f \in WavFiles \ Shown, g \in Shown : GetMTime(f) < GetMTime(g)

====
